---- MODULE Spec2Model ----
(***************************************************************************)
(* TcpSocketPro: the TCP echo server of server/server.go (and its twin     *)
(* server_best.go): the accept loop with its semaphore admission gate,     *)
(* the per-connection handler with its TTL watchdog goroutine, and the     *)
(* PING/PONG + echo line protocol; and the client of client/client.go:     *)
(* its reconnect loop with the jittered backoff, the heartbeat goroutine   *)
(* and the read loop that filters PONG.                                    *)
(*                                                                         *)
(* Time is abstracted: a read deadline set by the loop is "future", and a   *)
(* read that waits with no complete line there may fail by it at any       *)
(* moment; the TTL timer of a context fires at any moment while the        *)
(* context is live.  Text is a sequence of one-character strings.          *)
(***************************************************************************)
EXTENDS Integers, Sequences, FiniteSets, TLC

(* ------------------------------ bounds --------------------------------- *)
\* capacity of the semaphore channel (flag -max-conn)
maxConnections == 1
\* number of peers that ever connect
NumConns == 2
\* lines the peer of a connection sends when one connection is followed
MaxLines == 3
\* length of the whitespace padding put around a line's content
MaxPad == 1
\* connections the client gets established (later dials are refused)
MaxSessions == 1
\* lines the client's peer sends on one connection
MaxMsgs == 3
\* length up to which a run of failed connect attempts is told apart
MaxStreak == 2

(* ----------------------------- constants ------------------------------- *)
\* time.Duration(1000+rand.Intn(2000)) * time.Millisecond
BackoffBase == 1000
BackoffSpread == 2000

Conns == 1..NumConns
Sessions == 1..MaxSessions

(* ------------------------------ text ----------------------------------- *)
PING == <<"P", "I", "N", "G">>
PONG == <<"P", "O", "N", "G">>
NL == <<"\n">>
CRLF == <<"\r", "\n">>
\* the literal "ECHO: " of the echo reply
EchoTag == <<"E", "C", "H", "O", ":", " ">>
\* unicode.IsSpace on the characters used here
WhiteSpace == {" ", "\t", "\n", "\r", "\f"}

RECURSIVE TrimLeft(_)
TrimLeft(s) ==
    IF s # <<>> /\ Head(s) \in WhiteSpace THEN TrimLeft(Tail(s)) ELSE s

RECURSIVE TrimRight(_)
TrimRight(s) ==
    IF s # <<>> /\ s[Len(s)] \in WhiteSpace
    THEN TrimRight(SubSeq(s, 1, Len(s) - 1))
    ELSE s

\* faulty variant of TrimSpace: trailing white space only
TrimSpaceRightOnly(s) == TrimRight(s)
\* strings.TrimSpace
TrimSpace(s) == TrimRight(TrimLeft(s))

\* faulty variant of IsHeartbeat: a prefix test
IsHeartbeatPrefix(line) == Len(line) >= 4 /\ SubSeq(line, 1, 4) = PING
\* line == "PING"
IsHeartbeat(line) == line = PING

\* the string handed to writer.WriteString for a line as ReadString returned it
ReplyFor(raw) ==
    LET line == TrimSpace(raw)
    IN  IF IsHeartbeat(line) THEN PONG \o NL ELSE EchoTag \o line \o NL

(* ------------------------------ state ---------------------------------- *)
VARIABLES
    accPc,        \* accept loop position: "accept", "select", "count"
    conn,         \* the accept loop's conn (0: none)
    nextId,       \* the next peer to connect
    sem,          \* number of tokens in the sem channel
    currentConns, \* expvar tcp_current_connections
    totalConns,   \* expvar tcp_total_connections
    timeoutErrs,  \* expvar tcp_timeout_errors
    sock,         \* per connection: "none", "open", "closed" (server side)
    closer,       \* per connection: sequence of who called conn.Close()
    peer,         \* per connection: "none", "up", "eof", "reset", "gone" (socket closed here)
    inbuf,        \* per connection: complete lines waiting in the socket
    quota,        \* lines the peers will still send
    hpc,          \* handler goroutine position
    wpc,          \* watchdog goroutine position
    ctxErr,       \* ctx.Err(): "nil", "DeadlineExceeded", "Canceled"
    rdl,          \* read deadline: "none", "future" (now + readTimeout), "forced" (past)
    bufd,         \* lines held in the bufio.Reader
    line,         \* the handler's line, as ReadString returned it
    werr,         \* the bufio.Writer's sticky error
    received,     \* history: lines ReadString returned in the handler's loop
    wrote,        \* history: strings handed to WriteString in the handler's loop
    wire,         \* bytes the open socket has taken for the peer
    cause,        \* history: why the read loop of the running handler ended
    tmo,          \* history: timeoutErrs increments the running handler made
    released,     \* history: tokens taken back from sem for the connection
    ttlForced,    \* history: the watchdog forced the read deadline of a loop that had read a line
    cpc,          \* client main goroutine position
    backoff,      \* the client's backoff, in ms (0: none drawn)
    sess,         \* number of connections the client has had established
    csock,        \* per client connection: "none", "open", "closed" (client side)
    hb,           \* per client connection: heartbeat goroutine "none", "wait", "failed", "stopped"
    stopN,        \* per client connection: number of close(stopHeartbeat) calls
    got,          \* history: lines ReadString returned in the client's read loop
    shown,        \* history: strings the client's read loop printed
    streak        \* history: connect attempts failed in a row (up to MaxStreak)

accVars == <<accPc, conn, nextId>>
cntVars == <<currentConns, totalConns, timeoutErrs>>
netVars == <<sock, closer, peer, inbuf, quota>>
hVars == <<hpc, bufd, line, werr>>
wdVars == <<wpc, ctxErr>>
histVars == <<received, wrote, wire, cause, tmo, released, ttlForced>>
vars == <<accVars, sem, cntVars, netVars, hVars, wdVars, rdl, histVars>>
cliVars == <<cpc, backoff, sess, csock, hb, stopN, got, shown, streak>>

\* the client process at the top of main's loop, about to call connectAndWork
ClientInit ==
    /\ cpc = "resolve"
    /\ backoff = 0
    /\ sess = 0
    /\ csock = [s \in Sessions |-> "none"]
    /\ hb = [s \in Sessions |-> "none"]
    /\ stopN = [s \in Sessions |-> 0]
    /\ got = <<>>
    /\ shown = <<>>
    /\ streak = 0

\* the lines peers send while the server runs
PeerLines == {PING \o NL, <<" ", "a">> \o CRLF}

\* whitespace paddings of at most MaxPad characters
Pads == UNION {[1..n -> {" ", "\t"}] : n \in 0..MaxPad}
\* line contents without a terminator
Contents ==
    { PING,
      <<"p", "i", "n", "g">>,
      <<"P", "I", "N", "G", "X">>,
      <<"P", "I", "N", "G", " ", "P", "I", "N", "G">>,
      PONG,
      <<>>,
      <<"H", "e", "l", "l", "o", " ", "W", "o", "r", "l", "d">> }
\* the lines ReadString can return for these contents
RawLines == {p \o k \o q \o t : p \in Pads, k \in Contents, q \in Pads, t \in {NL, CRLF}}

\* handler positions inside the read loop (state Active)
Active == {"setdl", "read", "reply"}
\* handler positions after the read loop returned (Closing, Closed)
Closing == {"close", "release", "dec", "done"}

Init ==
    /\ accPc = "accept"
    /\ conn = 0
    /\ nextId = 1
    /\ sem = 0
    /\ currentConns = 0
    /\ totalConns = 0
    /\ timeoutErrs = 0
    /\ sock = [c \in Conns |-> "none"]
    /\ closer = [c \in Conns |-> <<>>]
    /\ peer = [c \in Conns |-> "none"]
    /\ inbuf = [c \in Conns |-> <<>>]
    /\ quota = 1    \* what is read does not bear on admission: one line goes through
    /\ hpc = [c \in Conns |-> "none"]
    /\ wpc = [c \in Conns |-> "none"]
    /\ ctxErr = [c \in Conns |-> "nil"]
    /\ rdl = [c \in Conns |-> "none"]
    /\ bufd = [c \in Conns |-> <<>>]
    /\ line = [c \in Conns |-> <<>>]
    /\ werr = [c \in Conns |-> FALSE]
    /\ received = [c \in Conns |-> <<>>]
    /\ wrote = [c \in Conns |-> <<>>]
    /\ wire = [c \in Conns |-> <<>>]
    /\ cause = [c \in Conns |-> "none"]
    /\ tmo = [c \in Conns |-> 0]
    /\ released = [c \in Conns |-> 0]
    /\ ttlForced = [c \in Conns |-> FALSE]
    /\ ClientInit

(* ---------------------------- accept loop ------------------------------ *)
\* conn, err := ln.Accept() with err == nil
AcceptConn ==
    /\ accPc = "accept"
    /\ nextId <= NumConns
    /\ conn' = nextId
    /\ nextId' = nextId + 1
    /\ sock' = [sock EXCEPT ![nextId] = "open"]
    /\ peer' = [peer EXCEPT ![nextId] = "up"]
    /\ accPc' = "select"
    /\ UNCHANGED <<sem, cntVars, closer, inbuf, quota, hVars, wdVars, rdl, histVars>>
    /\ UNCHANGED cliVars

\* ln.Accept() fails: after the 10 ms sleep (temporary error) or the log
\* line (any other) the loop continues with ln.Accept(), nothing changed
AcceptError ==
    /\ accPc = "accept"
    /\ accPc' = "accept"
    /\ UNCHANGED <<conn, nextId, sem, cntVars, netVars, hVars, wdVars, rdl, histVars>>
    /\ UNCHANGED cliVars

\* faulty variant of SemHasRoom: one token too many
SemHasRoomOffByOne == sem <= maxConnections
\* case sem <- struct{}{} can proceed: the channel buffer is not full
SemHasRoom == sem < maxConnections

\* select, case sem <- struct{}{}
Admit ==
    /\ accPc = "select"
    /\ SemHasRoom
    /\ sem' = sem + 1
    /\ accPc' = "count"
    /\ UNCHANGED <<conn, nextId, cntVars, netVars, hVars, wdVars, rdl, histVars>>
    /\ UNCHANGED cliVars

\* faulty variant of Reject: the connection is dropped without conn.Close()
RejectKeepOpen ==
    /\ accPc = "select"
    /\ ~SemHasRoom
    /\ accPc' = "accept"
    /\ UNCHANGED <<conn, nextId, sem, cntVars, netVars, hVars, wdVars, rdl, histVars>>
    /\ UNCHANGED cliVars
\* select, default: conn.Close()
Reject ==
    /\ accPc = "select"
    /\ ~SemHasRoom
    /\ sock' = [sock EXCEPT ![conn] = "closed"]
    /\ closer' = [closer EXCEPT ![conn] = Append(@, "acceptor")]
    /\ peer' = [peer EXCEPT ![conn] = "gone"]
    /\ accPc' = "accept"
    /\ UNCHANGED <<conn, nextId, sem, cntVars, inbuf, quota, hVars, wdVars, rdl, histVars>>
    /\ UNCHANGED cliVars

\* currentConns.Add(1); totalConns.Add(1); go func() { handleConnection(conn) ... }()
\* with handleConnection up to the loop: the defers, the context and its
\* timer, the watchdog goroutine, the bufio reader and writer
Count ==
    /\ accPc = "count"
    /\ currentConns' = currentConns + 1
    /\ totalConns' = totalConns + 1
    /\ hpc' = [hpc EXCEPT ![conn] = "setdl"]
    /\ wpc' = [wpc EXCEPT ![conn] = "wait"]
    /\ accPc' = "accept"
    /\ UNCHANGED <<conn, nextId, sem, timeoutErrs, netVars, bufd, line, werr,
                   ctxErr, rdl, histVars>>
    /\ UNCHANGED cliVars

(* ------------------------------ handler -------------------------------- *)
\* conn.SetReadDeadline(time.Now().Add(readTimeout))
SetDeadline(c) ==
    /\ hpc[c] = "setdl"
    /\ rdl' = [rdl EXCEPT ![c] = "future"]
    /\ hpc' = [hpc EXCEPT ![c] = "read"]
    /\ UNCHANGED <<accVars, sem, cntVars, netVars, bufd, line, werr, wdVars, histVars>>
    /\ UNCHANGED cliVars

\* reader.ReadString('\n') returns a line: from the bufio buffer if it holds
\* one, else from a read of the socket, which takes every byte that is
\* waiting unless the read deadline has passed
ReadLine(c) ==
    /\ hpc[c] = "read"
    /\ \/ /\ bufd[c] # <<>>
          /\ line' = [line EXCEPT ![c] = Head(bufd[c])]
          /\ received' = [received EXCEPT ![c] = Append(@, Head(bufd[c]))]
          /\ bufd' = [bufd EXCEPT ![c] = Tail(@)]
          /\ UNCHANGED inbuf
       \/ /\ bufd[c] = <<>>
          /\ rdl[c] = "future"
          /\ inbuf[c] # <<>>
          /\ line' = [line EXCEPT ![c] = Head(inbuf[c])]
          /\ received' = [received EXCEPT ![c] = Append(@, Head(inbuf[c]))]
          /\ bufd' = [bufd EXCEPT ![c] = Tail(inbuf[c])]
          /\ inbuf' = [inbuf EXCEPT ![c] = <<>>]
    /\ hpc' = [hpc EXCEPT ![c] = "reply"]
    /\ UNCHANGED <<accVars, sem, cntVars, sock, closer, peer, quota, werr, wdVars, rdl,
                   wrote, wire, cause, tmo, released, ttlForced>>
    /\ UNCHANGED cliVars

\* the errors a socket read can fail with now: a timeout when the read
\* deadline was forced into the past by the watchdog, or when readTimeout
\* passes with no complete line there; io.EOF after the peer's FIN; another
\* error after its RST
ReadErrors(c) ==
    IF rdl[c] = "forced" THEN {"TTLExpired"}
    ELSE IF inbuf[c] # <<>> THEN {}
    ELSE {"IdleTimeout"}
         \cup (IF peer[c] = "eof" THEN {"PeerClosed"} ELSE {})
         \cup (IF peer[c] = "reset" THEN {"IOError"} ELSE {})

\* err != io.EOF && netErr.Timeout()
IsTimeout(e) == e \in {"TTLExpired", "IdleTimeout"}

\* faulty variant of TimeoutAdd: the timeout is counted twice
TimeoutAddTwice(e) == IF IsTimeout(e) THEN 2 ELSE 0
\* timeoutErrs.Add(1), if the error is a timeout
TimeoutAdd(e) == IF IsTimeout(e) THEN 1 ELSE 0

\* faulty variant of ReadFail: the error reaches the accept loop, which ends
ReadFailStopsAccepting(c) ==
    /\ hpc[c] = "read"
    /\ bufd[c] = <<>>
    /\ \E e \in ReadErrors(c) :
           /\ cause' = [cause EXCEPT ![c] = e]
           /\ timeoutErrs' = timeoutErrs + TimeoutAdd(e)
           /\ tmo' = [tmo EXCEPT ![c] = @ + TimeoutAdd(e)]
    /\ line' = [line EXCEPT ![c] = <<>>]
    /\ werr' = [werr EXCEPT ![c] = FALSE]
    /\ received' = [received EXCEPT ![c] = <<>>]
    /\ wrote' = [wrote EXCEPT ![c] = <<>>]
    /\ ttlForced' = [ttlForced EXCEPT ![c] = FALSE]
    /\ IF ctxErr[c] = "nil"
       THEN /\ ctxErr' = [ctxErr EXCEPT ![c] = "Canceled"]
            /\ wpc' = [wpc EXCEPT ![c] = "done"]
       ELSE UNCHANGED <<ctxErr, wpc>>
    /\ hpc' = [hpc EXCEPT ![c] = "close"]
    /\ accPc' = "exit"
    /\ UNCHANGED <<conn, nextId, sem, currentConns, totalConns, netVars, bufd,
                   rdl, wire, released>>
    /\ UNCHANGED cliVars
\* reader.ReadString('\n') returns an error (and no line): the timeout
\* counter is bumped for a timeout; return, which runs the deferred cancel():
\* if the timer has not fired, ctx.Err() becomes Canceled and Done is closed,
\* and the watchdog, woken by it, finds ctx.Err() is not DeadlineExceeded and
\* ends without touching anything.  The loop's reader, writer and line, and
\* the histories of what it read and wrote, end here; conn.Close() is next.
ReadFail(c) ==
    /\ hpc[c] = "read"
    /\ bufd[c] = <<>>
    /\ \E e \in ReadErrors(c) :
           /\ cause' = [cause EXCEPT ![c] = e]
           /\ timeoutErrs' = timeoutErrs + TimeoutAdd(e)
           /\ tmo' = [tmo EXCEPT ![c] = @ + TimeoutAdd(e)]
    /\ line' = [line EXCEPT ![c] = <<>>]
    /\ werr' = [werr EXCEPT ![c] = FALSE]
    /\ received' = [received EXCEPT ![c] = <<>>]
    /\ wrote' = [wrote EXCEPT ![c] = <<>>]
    /\ ttlForced' = [ttlForced EXCEPT ![c] = FALSE]
    /\ IF ctxErr[c] = "nil"
       THEN /\ ctxErr' = [ctxErr EXCEPT ![c] = "Canceled"]
            /\ wpc' = [wpc EXCEPT ![c] = "done"]
       ELSE UNCHANGED <<ctxErr, wpc>>
    /\ hpc' = [hpc EXCEPT ![c] = "close"]
    /\ UNCHANGED <<accVars, sem, currentConns, totalConns, netVars, bufd,
                   rdl, wire, released>>
    /\ UNCHANGED cliVars

\* faulty variant of AfterWrite: a failed write makes the handler return
AfterWriteReturns(failed) == IF failed THEN "close" ELSE "setdl"
\* where the handler goes after WriteString and Flush, whatever they returned
AfterWrite(failed) == "setdl"

\* faulty variant of Reply: the loop continues without writing the reply
ReplySkipped(c) ==
    /\ hpc[c] = "reply"
    /\ hpc' = [hpc EXCEPT ![c] = "setdl"]
    /\ UNCHANGED <<accVars, sem, cntVars, netVars, bufd, line, werr, wdVars, rdl, histVars>>
    /\ UNCHANGED cliVars

\* line = strings.TrimSpace(line); conn.SetWriteDeadline(...);
\* writer.WriteString(reply); writer.Flush(); (continue)
\* The writer hands the socket the whole reply, or the write fails after n
\* of its bytes (deadline or I/O error) and the writer keeps that error:
\* WriteString and Flush then do nothing for the rest of the connection.
\* Neither result is looked at.
Reply(c) ==
    /\ hpc[c] = "reply"
    /\ LET s == ReplyFor(line[c])
       IN  /\ wrote' = [wrote EXCEPT ![c] = Append(@, s)]
           /\ \/ /\ ~werr[c]
                 /\ peer[c] # "reset"
                 /\ wire' = [wire EXCEPT ![c] = @ \o s]
                 /\ UNCHANGED werr
                 /\ hpc' = [hpc EXCEPT ![c] = AfterWrite(FALSE)]
              \/ /\ ~werr[c]
                 /\ \E n \in {0, Len(s) - 1} :
                        wire' = [wire EXCEPT ![c] = @ \o SubSeq(s, 1, n)]
                 /\ werr' = [werr EXCEPT ![c] = TRUE]
                 /\ hpc' = [hpc EXCEPT ![c] = AfterWrite(TRUE)]
              \/ /\ werr[c]
                 /\ UNCHANGED <<wire, werr>>
                 /\ hpc' = [hpc EXCEPT ![c] = AfterWrite(TRUE)]
    /\ UNCHANGED <<accVars, sem, cntVars, netVars, bufd, line, wdVars, rdl,
                   received, cause, tmo, released, ttlForced>>
    /\ UNCHANGED cliVars

\* faulty variant of Close: handleConnection returns without conn.Close()
CloseLeak(c) ==
    /\ hpc[c] = "close"
    /\ hpc' = [hpc EXCEPT ![c] = "release"]
    /\ UNCHANGED <<accVars, sem, cntVars, netVars, bufd, line, werr, wdVars, rdl, histVars>>
    /\ UNCHANGED cliVars
\* deferred conn.Close(): the socket, its unread data, its deadlines and the
\* byte stream to the peer are gone
Close(c) ==
    /\ hpc[c] = "close"
    /\ sock' = [sock EXCEPT ![c] = "closed"]
    /\ closer' = [closer EXCEPT ![c] = Append(@, "handler")]
    /\ peer' = [peer EXCEPT ![c] = "gone"]
    /\ inbuf' = [inbuf EXCEPT ![c] = <<>>]
    /\ rdl' = [rdl EXCEPT ![c] = "none"]
    /\ wire' = [wire EXCEPT ![c] = <<>>]
    /\ hpc' = [hpc EXCEPT ![c] = "release"]
    /\ UNCHANGED <<accVars, sem, cntVars, quota, bufd, line, werr, wdVars,
                   received, wrote, cause, tmo, released, ttlForced>>
    /\ UNCHANGED cliVars

\* faulty variant of Release: the token stays in sem
ReleaseForgotten(c) ==
    /\ hpc[c] = "release"
    /\ released' = [released EXCEPT ![c] = @ + 1]
    /\ hpc' = [hpc EXCEPT ![c] = "dec"]
    /\ UNCHANGED <<accVars, sem, cntVars, netVars, bufd, line, werr, wdVars, rdl,
                   received, wrote, wire, cause, tmo, ttlForced>>
    /\ UNCHANGED cliVars
\* <-sem, after handleConnection returned
Release(c) ==
    /\ hpc[c] = "release"
    /\ sem > 0
    /\ sem' = sem - 1
    /\ released' = [released EXCEPT ![c] = @ + 1]
    /\ hpc' = [hpc EXCEPT ![c] = "dec"]
    /\ UNCHANGED <<accVars, cntVars, netVars, bufd, line, werr, wdVars, rdl,
                   received, wrote, wire, cause, tmo, ttlForced>>
    /\ UNCHANGED cliVars

\* currentConns.Add(-1); the goroutine ends, and with it the record of why
\* its loop ended
Dec(c) ==
    /\ hpc[c] = "dec"
    /\ currentConns' = currentConns - 1
    /\ cause' = [cause EXCEPT ![c] = "none"]
    /\ tmo' = [tmo EXCEPT ![c] = 0]
    /\ hpc' = [hpc EXCEPT ![c] = "done"]
    /\ UNCHANGED <<accVars, sem, totalConns, timeoutErrs, netVars, bufd, line, werr,
                   wdVars, rdl, received, wrote, wire, released, ttlForced>>
    /\ UNCHANGED cliVars

(* ------------------------------ watchdog ------------------------------- *)
\* the timer of context.WithTimeout(..., maxConnAge) fires: ctx.Err() becomes
\* DeadlineExceeded for good and Done is closed; the watchdog passes
\* <-ctx.Done() and its test of ctx.Err(), and stands before SetReadDeadline
TTLExpire(c) ==
    /\ wpc[c] = "wait"
    /\ ctxErr[c] = "nil"
    /\ ctxErr' = [ctxErr EXCEPT ![c] = "DeadlineExceeded"]
    /\ wpc' = [wpc EXCEPT ![c] = "force"]
    /\ UNCHANGED <<accVars, sem, cntVars, netVars, hVars, rdl, histVars>>
    /\ UNCHANGED cliVars

\* conn.SetReadDeadline(time.Now()): an error, ignored, on a closed socket
WdForce(c) ==
    /\ wpc[c] = "force"
    /\ IF sock[c] = "open"
       THEN /\ rdl' = [rdl EXCEPT ![c] = "forced"]
            /\ ttlForced' = [ttlForced EXCEPT ![c] = hpc[c] \in Active /\ received[c] # <<>>]
       ELSE UNCHANGED <<rdl, ttlForced>>
    /\ wpc' = [wpc EXCEPT ![c] = "done"]
    /\ UNCHANGED <<accVars, sem, cntVars, netVars, hVars, ctxErr,
                   received, wrote, wire, cause, tmo, released>>
    /\ UNCHANGED cliVars

(* ---------------------------- environment ------------------------------ *)
\* the peer sends one complete line
PeerSend(c) ==
    /\ hpc[c] \in Active
    /\ peer[c] = "up"
    /\ quota > 0
    /\ quota' = quota - 1
    /\ \E l \in PeerLines : inbuf' = [inbuf EXCEPT ![c] = Append(@, l)]
    /\ UNCHANGED <<accVars, sem, cntVars, sock, closer, peer, hVars, wdVars, rdl, histVars>>
    /\ UNCHANGED cliVars

\* the peer closes its side (FIN): what it sent stays readable, then EOF
PeerClose(c) ==
    /\ hpc[c] \in Active
    /\ peer[c] = "up"
    /\ peer' = [peer EXCEPT ![c] = "eof"]
    /\ UNCHANGED <<accVars, sem, cntVars, sock, closer, inbuf, quota, hVars, wdVars, rdl,
                   histVars>>
    /\ UNCHANGED cliVars

\* the peer resets the connection (RST): unread data is dropped
PeerReset(c) ==
    /\ hpc[c] \in Active
    /\ peer[c] = "up"
    /\ peer' = [peer EXCEPT ![c] = "reset"]
    /\ inbuf' = [inbuf EXCEPT ![c] = <<>>]
    /\ UNCHANGED <<accVars, sem, cntVars, sock, closer, quota, hVars, wdVars, rdl, histVars>>
    /\ UNCHANGED cliVars

(* --------------------------- specification ----------------------------- *)
Next ==
    \/ AcceptConn
    \/ AcceptError
    \/ Admit
    \/ Reject
    \/ Count
    \/ \E c \in Conns : SetDeadline(c)
    \/ \E c \in Conns : ReadLine(c)
    \/ \E c \in Conns : ReadFail(c)
    \/ \E c \in Conns : Reply(c)
    \/ \E c \in Conns : Close(c)
    \/ \E c \in Conns : Release(c)
    \/ \E c \in Conns : Dec(c)
    \/ \E c \in Conns : TTLExpire(c)
    \/ \E c \in Conns : WdForce(c)
    \/ \E c \in Conns : PeerSend(c)
    \/ \E c \in Conns : PeerClose(c)
    \/ \E c \in Conns : PeerReset(c)

\* the server from its start; the peers together send one line
Spec == Init /\ [][Next]_vars

\* one admitted connection, from the moment its handler was started, with a
\* peer that sends up to MaxLines lines
InitConn ==
    /\ accPc = "accept"
    /\ conn = 1
    /\ nextId = 2
    /\ sem = 1
    /\ currentConns = 1
    /\ totalConns = 1
    /\ timeoutErrs = 0
    /\ sock = [c \in Conns |-> IF c = 1 THEN "open" ELSE "none"]
    /\ closer = [c \in Conns |-> <<>>]
    /\ peer = [c \in Conns |-> IF c = 1 THEN "up" ELSE "none"]
    /\ inbuf = [c \in Conns |-> <<>>]
    /\ quota = MaxLines
    /\ hpc = [c \in Conns |-> IF c = 1 THEN "setdl" ELSE "none"]
    /\ wpc = [c \in Conns |-> IF c = 1 THEN "wait" ELSE "none"]
    /\ ctxErr = [c \in Conns |-> "nil"]
    /\ rdl = [c \in Conns |-> "none"]
    /\ bufd = [c \in Conns |-> <<>>]
    /\ line = [c \in Conns |-> <<>>]
    /\ werr = [c \in Conns |-> FALSE]
    /\ received = [c \in Conns |-> <<>>]
    /\ wrote = [c \in Conns |-> <<>>]
    /\ wire = [c \in Conns |-> <<>>]
    /\ cause = [c \in Conns |-> "none"]
    /\ tmo = [c \in Conns |-> 0]
    /\ released = [c \in Conns |-> 0]
    /\ ttlForced = [c \in Conns |-> FALSE]
    /\ ClientInit

NextConn ==
    \/ \E c \in Conns : SetDeadline(c)
    \/ \E c \in Conns : ReadLine(c)
    \/ \E c \in Conns : ReadFail(c)
    \/ \E c \in Conns : Reply(c)
    \/ \E c \in Conns : Close(c)
    \/ \E c \in Conns : Release(c)
    \/ \E c \in Conns : Dec(c)
    \/ \E c \in Conns : TTLExpire(c)
    \/ \E c \in Conns : WdForce(c)
    \/ \E c \in Conns : PeerSend(c)
    \/ \E c \in Conns : PeerClose(c)
    \/ \E c \in Conns : PeerReset(c)

SpecConn == InitConn /\ [][NextConn]_vars

\* the same, with the scheduler running the handler's goroutine whenever it
\* can take a step that does not wait for the peer or for time: the deferred
\* conn.Close(), <-sem (its token is in the channel) and currentConns.Add(-1)
FairConn ==
    /\ SpecConn
    /\ \A c \in Conns : WF_vars(Close(c)) /\ WF_vars(Release(c)) /\ WF_vars(Dec(c))

\* one admitted connection whose handler has just read a line, any of RawLines
InitLine ==
    /\ accPc = "accept"
    /\ conn = 1
    /\ nextId = 2
    /\ sem = 1
    /\ currentConns = 1
    /\ totalConns = 1
    /\ timeoutErrs = 0
    /\ sock = [c \in Conns |-> IF c = 1 THEN "open" ELSE "none"]
    /\ closer = [c \in Conns |-> <<>>]
    /\ peer = [c \in Conns |-> IF c = 1 THEN "up" ELSE "none"]
    /\ inbuf = [c \in Conns |-> <<>>]
    /\ quota = 0
    /\ hpc = [c \in Conns |-> IF c = 1 THEN "reply" ELSE "none"]
    /\ wpc = [c \in Conns |-> IF c = 1 THEN "wait" ELSE "none"]
    /\ ctxErr = [c \in Conns |-> "nil"]
    /\ rdl = [c \in Conns |-> IF c = 1 THEN "future" ELSE "none"]
    /\ bufd = [c \in Conns |-> <<>>]
    /\ \E r \in RawLines :
           /\ line = [c \in Conns |-> IF c = 1 THEN r ELSE <<>>]
           /\ received = [c \in Conns |-> IF c = 1 THEN <<r>> ELSE <<>>]
    /\ werr = [c \in Conns |-> FALSE]
    /\ wrote = [c \in Conns |-> <<>>]
    /\ wire = [c \in Conns |-> <<>>]
    /\ cause = [c \in Conns |-> "none"]
    /\ tmo = [c \in Conns |-> 0]
    /\ released = [c \in Conns |-> 0]
    /\ ttlForced = [c \in Conns |-> FALSE]
    /\ ClientInit

NextLine == \E c \in Conns : Reply(c)

SpecLine == InitLine /\ [][NextLine]_vars

(* ------------------------------ client --------------------------------- *)
\* the literal "Server: " printed before a line
ServerTag == <<"S", "e", "r", "v", "e", "r", ":", " ">>
\* the lines the server sends: its replies to a PING, to a padded line and
\* to a line that reads PONG
ServerLines == {ReplyFor(PING \o NL), ReplyFor(<<" ", "a">> \o CRLF), ReplyFor(PONG \o NL)}

\* faulty variant of IsPong: a test of the line's end
IsPongSuffix(msg) == Len(msg) >= 5 /\ SubSeq(msg, Len(msg) - 4, Len(msg)) = PONG \o NL
\* msg == "PONG\n"
IsPong(msg) == msg = PONG \o NL

\* faulty variant of Intn: n itself can be drawn
IntnInclusive(n) == 0..n
\* the values of rand.Intn(n)
Intn(n) == 0..(n - 1)

\* the count of failed attempts in a row, told apart up to MaxStreak
Bump(n) == IF n < MaxStreak THEN n + 1 ELSE MaxStreak

\* connectAndWork(): target := serverList[...]; net.ResolveTCPAddr succeeds
ResolveOk ==
    /\ cpc = "resolve"
    /\ cpc' = "dial"
    /\ UNCHANGED <<backoff, sess, csock, hb, stopN, got, shown, streak>>
    /\ UNCHANGED vars

\* net.ResolveTCPAddr fails: print, return
ResolveFail ==
    /\ cpc = "resolve"
    /\ cpc' = "returned"
    /\ streak' = Bump(streak)
    /\ UNCHANGED <<backoff, sess, csock, hb, stopN, got, shown>>
    /\ UNCHANGED vars

\* faulty variant of DialFail: the dial is tried again at once
DialFailRetries ==
    /\ cpc = "dial"
    /\ cpc' = "resolve"
    /\ streak' = Bump(streak)
    /\ UNCHANGED <<backoff, sess, csock, hb, stopN, got, shown>>
    /\ UNCHANGED vars
\* net.DialTimeout fails (refused, unreachable, connTimeout): print, return
DialFail ==
    /\ cpc = "dial"
    /\ cpc' = "returned"
    /\ streak' = Bump(streak)
    /\ UNCHANGED <<backoff, sess, csock, hb, stopN, got, shown>>
    /\ UNCHANGED vars

\* net.DialTimeout succeeds; defer conn.Close(); stopHeartbeat := make(chan
\* struct{}); go func() { ... }(); reader := bufio.NewReader(conn)
DialOk ==
    /\ cpc = "dial"
    /\ sess < MaxSessions
    /\ sess' = sess + 1
    /\ csock' = [csock EXCEPT ![sess + 1] = "open"]
    /\ hb' = [hb EXCEPT ![sess + 1] = "wait"]
    /\ streak' = 0
    /\ cpc' = "loop"
    /\ UNCHANGED <<backoff, stopN, got, shown>>
    /\ UNCHANGED vars

\* conn.SetReadDeadline(...); reader.ReadString('\n') returns a line;
\* if msg == "PONG\n" { continue }; fmt.Print("Server: " + msg)
CliReadLine ==
    /\ cpc = "loop"
    /\ Len(got) < MaxMsgs
    /\ \E msg \in ServerLines :
           /\ got' = Append(got, msg)
           /\ shown' = IF IsPong(msg) THEN shown ELSE Append(shown, ServerTag \o msg)
    /\ UNCHANGED <<cpc, backoff, sess, csock, hb, stopN, streak>>
    /\ UNCHANGED vars

\* faulty variant of CliReadFail: return without close(stopHeartbeat)
CliReadFailNoSignal ==
    /\ cpc = "loop"
    /\ got' = <<>>
    /\ shown' = <<>>
    /\ cpc' = "cclose"
    /\ UNCHANGED <<backoff, sess, csock, hb, stopN, streak>>
    /\ UNCHANGED vars
\* reader.ReadString fails (EOF, reset, the 65 s deadline): print,
\* close(stopHeartbeat), return; the reader and what it read end here
CliReadFail ==
    /\ cpc = "loop"
    /\ stopN' = [stopN EXCEPT ![sess] = @ + 1]
    /\ got' = <<>>
    /\ shown' = <<>>
    /\ cpc' = "cclose"
    /\ UNCHANGED <<backoff, sess, csock, hb, streak>>
    /\ UNCHANGED vars

\* the deferred conn.Close(), as connectAndWork returns to main
CliClose ==
    /\ cpc = "cclose"
    /\ csock' = [csock EXCEPT ![sess] = "closed"]
    /\ cpc' = "returned"
    /\ UNCHANGED <<backoff, sess, hb, stopN, got, shown, streak>>
    /\ UNCHANGED vars

\* backoff := time.Duration(1000+rand.Intn(2000)) * time.Millisecond; print;
\* time.Sleep(backoff) begins
Backoff ==
    /\ cpc = "returned"
    /\ \E r \in Intn(BackoffSpread) : backoff' = BackoffBase + r
    /\ cpc' = "sleep"
    /\ UNCHANGED <<sess, csock, hb, stopN, got, shown, streak>>
    /\ UNCHANGED vars

\* time.Sleep(backoff) returns; the loop's next iteration calls connectAndWork
Wake ==
    /\ cpc = "sleep"
    /\ backoff' = 0
    /\ cpc' = "resolve"
    /\ UNCHANGED <<sess, csock, hb, stopN, got, shown, streak>>
    /\ UNCHANGED vars

\* heartbeat, case <-ticker.C: conn.SetWriteDeadline(...); fmt.Fprintf(conn,
\* "PING\n"): on an open socket the write can succeed, and the loop goes on;
\* it can fail (closed socket, peer gone, write deadline), and the goroutine
\* returns
HbSend(s) ==
    /\ hb[s] = "wait"
    /\ \/ /\ csock[s] = "open"
          /\ UNCHANGED hb
       \/ hb' = [hb EXCEPT ![s] = "failed"]
    /\ UNCHANGED <<cpc, backoff, sess, csock, stopN, got, shown, streak>>
    /\ UNCHANGED vars

\* heartbeat, case <-stopHeartbeat: the channel is closed; return
HbStop(s) ==
    /\ hb[s] = "wait"
    /\ stopN[s] > 0
    /\ hb' = [hb EXCEPT ![s] = "stopped"]
    /\ UNCHANGED <<cpc, backoff, sess, csock, stopN, got, shown, streak>>
    /\ UNCHANGED vars

\* the steps of the client's main goroutine
MainNext ==
    \/ ResolveOk
    \/ ResolveFail
    \/ DialOk
    \/ DialFail
    \/ CliReadLine
    \/ CliReadFail
    \/ CliClose
    \/ Backoff
    \/ Wake

NextClient ==
    \/ MainNext
    \/ \E s \in Sessions : HbSend(s)
    \/ \E s \in Sessions : HbStop(s)

\* the client from its start, with the server of its own process list not
\* part of the run: its peer is whatever answers, or refuses, the dial
SpecClient == Init /\ [][NextClient]_cliVars

\* the same, with the scheduler running each goroutine whenever it can take
\* a step that does not wait for the peer: resolve and dial come back (the
\* dial by connTimeout at the latest), the deferred Close and the backoff
\* draw run, time.Sleep returns, and a heartbeat goroutine whose stop channel
\* is closed gets to its select
FairClient ==
    /\ SpecClient
    /\ WF_cliVars(ResolveOk \/ ResolveFail)
    /\ WF_cliVars(DialOk \/ DialFail)
    /\ WF_cliVars(CliClose)
    /\ WF_cliVars(Backoff)
    /\ WF_cliVars(Wake)
    /\ \A s \in Sessions : WF_cliVars(HbStop(s))

(* ------------------------------ claims --------------------------------- *)
\* connections whose handleConnection has been started and has not returned
Running == {c \in Conns : hpc[c] \in Active \cup {"close"}}
\* connections that hold a token of sem
Holding == {c \in Conns : hpc[c] \in Active \cup {"close", "release"}}
\* connections the accept loop closed itself
Rejected(c) == closer[c] = <<"acceptor">>

\* C1: in every reachable state at most maxConnections handlers have been
\* started and have not returned.
C1_AtMostNHandlers == Cardinality(Running) <= maxConnections

\* every slot is held by a running handler while one more connection stands at select
C1_Witness ==
    /\ Cardinality(Running) = maxConnections
    /\ accPc = "select"
    /\ sem = maxConnections

\* C2: a connection accepted while every slot is held is closed by the accept
\* loop itself in its next step, which takes it back to ln.Accept(): no
\* handler or watchdog is started for it and no byte is written to it; the
\* loop can always take that step (it never waits for a slot); and a rejected
\* connection stays rejected, whatever slots are released afterwards.
C2_RejectedAtOnce ==
    /\ [](accPc = "select" => ENABLED (Admit \/ Reject))
    /\ [](\A c \in Conns :
            Rejected(c) => /\ sock[c] = "closed"
                           /\ hpc[c] = "none"
                           /\ wpc[c] = "none"
                           /\ wire[c] = <<>>)
    /\ [][ /\ (accPc = "select" /\ sem = maxConnections /\ accPc' # accPc)
              => (accPc' = "accept" /\ Rejected(conn)' /\ sem' = sem)
           /\ \A c \in Conns : Rejected(c) => (Rejected(c)' /\ hpc'[c] = "none")
         ]_vars

\* a connection was rejected and every slot has been released since
C2_Witness == \E c \in Conns : Rejected(c) /\ sem = 0 /\ accPc = "accept"

\* C3: a token is taken from sem once for each handler that has returned and
\* for no other connection, so sem holds exactly the tokens of the connections
\* still being served; when none is being served sem is empty and a connection
\* standing at select is admitted.
C3_ReleasedOnce ==
    /\ \A c \in Conns : released[c] = IF hpc[c] \in {"dec", "done"} THEN 1 ELSE 0
    /\ sem = Cardinality(Holding) + (IF accPc = "count" THEN 1 ELSE 0)
    /\ (Holding = {} /\ accPc = "select") => (sem = 0 /\ ENABLED Admit /\ ~ENABLED Reject)

\* a handler has ended, giving its slot back, and a later connection was admitted
C3_Witness ==
    \E c, d \in Conns : c < d /\ hpc[c] = "done" /\ hpc[d] \in Active /\ sem = 1

\* the part of a line between its leading and its trailing white space
Stripped(raw) ==
    LET black == {i \in 1..Len(raw) : raw[i] \notin WhiteSpace}
    IN  IF black = {} THEN <<>>
        ELSE SubSeq(raw, CHOOSE i \in black : \A j \in black : i <= j,
                         CHOOSE i \in black : \A j \in black : i >= j)
\* a line without its terminator, LF or CR LF
Unterminated(raw) ==
    LET n == Len(raw)
    IN  IF n >= 2 /\ raw[n - 1] = "\r" /\ raw[n] = "\n" THEN SubSeq(raw, 1, n - 2)
        ELSE IF n >= 1 /\ raw[n] = "\n" THEN SubSeq(raw, 1, n - 1)
        ELSE raw
\* the reply the protocol asks for
Expected(raw) ==
    IF Stripped(raw) = PING THEN PONG \o NL ELSE EchoTag \o Stripped(raw) \o NL
\* the bytes of a sequence of strings, in order
RECURSIVE Concat(_)
Concat(ss) == IF ss = <<>> THEN <<>> ELSE Head(ss) \o Concat(Tail(ss))
IsPrefix(a, b) == Len(a) <= Len(b) /\ a = SubSeq(b, 1, Len(a))

\* C4: once the TTL watchdog has forced the read deadline of a connection
\* that is exchanging lines, a handler that is in ReadString has that past
\* deadline in force, so its in-flight or next read fails.
C4_ForcedDeadlineStands ==
    \A c \in Conns : (ttlForced[c] /\ hpc[c] = "read") => rdl[c] = "forced"

\* C5: after a write or flush has failed the handler is no longer in its
\* loop: it has left Active for Closing and reads no more.
C5_WriteErrorCloses ==
    \A c \in Conns : werr[c] => hpc[c] \in Closing

\* C6: a handler whose read ends by the idle timeout (readTimeout passes
\* with no complete line there) has bumped the timeout counter exactly once,
\* has left its loop, and goes on to close the socket, give its slot back
\* and end.
C6_IdleTimeoutCloses ==
    /\ [](\A c \in Conns :
            cause[c] = "IdleTimeout" =>
                /\ tmo[c] = 1
                /\ timeoutErrs >= 1
                /\ hpc[c] \in {"close", "release", "dec"}
                /\ (hpc[c] \in {"release", "dec"} => sock[c] = "closed" /\ closer[c] = <<"handler">>)
                /\ (hpc[c] = "dec" => released[c] = 1))
    /\ \A c \in Conns :
            (cause[c] = "IdleTimeout")
                ~> (hpc[c] = "done" /\ sock[c] = "closed" /\ released[c] = 1 /\ sem = 0)

\* the idle timeout ended a handler that has closed its socket and released its slot
C6_Witness ==
    \E c \in Conns : cause[c] = "IdleTimeout" /\ hpc[c] = "dec" /\ timeoutErrs = 1

\* C7: in its loop the handler has written one reply for every line it has
\* read, but for the line it is replying to; the replies are those of the
\* lines in the order read; and the bytes the socket took are a prefix of
\* these replies put end to end, all of them while no write has failed.
C7_Sequential ==
    \A c \in Conns :
        hpc[c] \in Active =>
            /\ Len(wrote[c]) = Len(received[c]) - (IF hpc[c] = "reply" THEN 1 ELSE 0)
            /\ \A i \in 1..Len(wrote[c]) : wrote[c][i] = Expected(received[c][i])
            /\ IsPrefix(wire[c], Concat(wrote[c]))
            /\ (~werr[c] => wire[c] = Concat(wrote[c]))

\* an echoed line then a PING were answered, in that order, on the wire
C7_Witness ==
    \E c \in Conns :
        /\ hpc[c] \in Active
        /\ Len(received[c]) = 2
        /\ received[c][1] # PING \o NL
        /\ received[c][2] = PING \o NL
        /\ wire[c] = Expected(received[c][1]) \o PONG \o NL

HelloWorld == <<"H", "e", "l", "l", "o", " ", "W", "o", "r", "l", "d">>

\* C8 as stated: the reply written for a line that is not a heartbeat is the
\* echo tag, the line without its CR/LF terminator and nothing else taken
\* off, and a newline.
C8_EchoesUnterminated ==
    \A c \in Conns :
        (wrote[c] # <<>> /\ Stripped(received[c][1]) # PING) =>
            wrote[c][1] = EchoTag \o Unterminated(received[c][1]) \o NL

\* C8 as amended: the reply written for a line that is not a heartbeat is
\* the echo tag, the line without its leading and trailing white space
\* (spaces and tabs as well as the CR/LF terminator), and a newline.
C8_EchoesStripped ==
    \A c \in Conns :
        (wrote[c] # <<>> /\ Stripped(received[c][1]) # PING) =>
            wrote[c][1] = EchoTag \o Stripped(received[c][1]) \o NL

\* a line with white space on both sides of its content has been answered
C8_Witness ==
    \E c \in Conns :
        /\ wrote[c] # <<>>
        /\ received[c][1] = <<" ">> \o HelloWorld \o <<"\t">> \o CRLF

\* C9: the line "Hello World" is answered with "ECHO:Hello World", no space
\* after the colon, as in the README's session.
C9_EchoWithoutSpace ==
    \A c \in Conns :
        (wrote[c] # <<>> /\ received[c][1] = HelloWorld \o NL) =>
            wrote[c][1] = <<"E", "C", "H", "O", ":">> \o HelloWorld \o NL

\* C10: the reply written for a line is "PONG\n" exactly when the line
\* without its surrounding white space is "PING"; for every other line it is
\* an echo reply.
C10_PongIffPing ==
    \A c \in Conns :
        wrote[c] # <<>> =>
            /\ (wrote[c][1] = PONG \o NL) <=> (Stripped(received[c][1]) = PING)
            /\ Stripped(received[c][1]) # PING =>
                   /\ Len(wrote[c][1]) > Len(EchoTag)
                   /\ SubSeq(wrote[c][1], 1, Len(EchoTag)) = EchoTag

\* a padded PING got its PONG, and PINGX, PING PING, ping, PONG and the empty
\* line are among the lines answered
C10_Witness ==
    /\ \E c \in Conns :
        /\ wrote[c] = <<PONG \o NL>>
        /\ received[c][1] = <<"\t">> \o PING \o <<" ">> \o CRLF
    /\ {PING \o <<"X">>, PING \o <<" ">> \o PING, <<"p", "i", "n", "g">>, PONG, <<>>}
           \subseteq Contents

\* C11: the socket of every accepted connection is closed exactly once: by
\* the handler, and nobody else, when the connection was admitted (it is
\* open while the handler runs and closed from the handler's return on), by
\* the accept loop when it was rejected; a socket is never closed twice, and
\* the only open socket without a handler is the one the accept loop has
\* just accepted.
C11_ClosedOnce ==
    \A c \in Conns :
        /\ Len(closer[c]) <= 1
        /\ (sock[c] = "closed") <=> (Len(closer[c]) = 1)
        /\ hpc[c] \in Active \cup {"close"} => (sock[c] = "open" /\ closer[c] = <<>>)
        /\ hpc[c] \in {"release", "dec", "done"} =>
               (sock[c] = "closed" /\ closer[c] = <<"handler">>)
        /\ closer[c] = <<"acceptor">> => hpc[c] = "none"
        /\ (hpc[c] = "none" /\ sock[c] = "open") => (c = conn /\ accPc \in {"select", "count"})

\* one connection was closed by its handler and another by the accept loop
C11_Witness ==
    \E c, d \in Conns : closer[c] = <<"handler">> /\ closer[d] = <<"acceptor">>

\* C12: the watchdog calls conn.SetReadDeadline(time.Now()), the step that
\* takes it from "force" to "done", only on a socket that is still open:
\* never after the handler has closed it.
C12_WatchdogSparesClosed ==
    [][\A c \in Conns : (wpc[c] = "force" /\ wpc'[c] = "done") => sock[c] = "open"]_vars

\* C13: the client's main goroutine always has a next step (it has no
\* terminal state).  A cycle makes one attempt: the resolve is followed by
\* the dial or by the return, the dial by the read loop or by the return,
\* never by another resolve or dial; the read loop is left only for the
\* deferred Close and the return.  Every return leads to the backoff sleep
\* and every sleep to the next attempt, and an attempt starts from nowhere
\* but the end of a sleep.
C13_ReconnectsForever ==
    /\ [](cpc \in {"resolve", "dial", "loop", "cclose", "returned", "sleep"})
    /\ [](ENABLED MainNext)
    /\ [][ /\ (cpc = "resolve" /\ cpc' # cpc) => cpc' \in {"dial", "returned"}
           /\ (cpc = "dial" /\ cpc' # cpc) => cpc' \in {"loop", "returned"}
           /\ (cpc = "loop" /\ cpc' # cpc) => cpc' = "cclose"
           /\ (cpc = "cclose" /\ cpc' # cpc) => cpc' = "returned"
           /\ (cpc = "returned" /\ cpc' # cpc) => (cpc' = "sleep" /\ backoff' > 0)
           /\ (cpc' = "resolve" /\ cpc' # cpc) => (cpc = "sleep" /\ backoff > 0)
         ]_cliVars
    /\ (cpc \in {"resolve", "dial", "cclose", "returned"}) ~> (cpc \in {"loop", "sleep"})
    /\ (cpc = "sleep") ~> (cpc = "resolve")

\* a run of failed attempts, each followed by its sleep, and the next attempt under way
C13_Witness == streak = MaxStreak /\ cpc = "dial"

\* C14: the backoff the client sleeps for is at least 1000 ms and less than
\* 3000 ms; none is kept from one cycle to the next; and whenever
\* connectAndWork has returned, after however many failed attempts in a
\* row, the shortest and the longest of these durations can be the one drawn.
C14_BackoffInRange ==
    /\ cpc = "sleep" => (1000 <= backoff /\ backoff < 3000)
    /\ cpc # "sleep" => backoff = 0
    /\ cpc = "returned" =>
           \A b \in {1000, 2999} : ENABLED (Backoff /\ backoff' = b)

\* the shortest backoff is slept after the longest run of failed attempts told apart
C14_Witness == cpc = "sleep" /\ streak = MaxStreak /\ backoff = 1000

\* the client connections whose read loop has failed
ReadFailed == {s \in Sessions : s <= sess /\ ~(s = sess /\ cpc = "loop")}

\* C15: stopHeartbeat is closed once, by the failed read loop of its
\* connection and by nothing else; the socket of a connection is closed
\* before main draws the backoff, so none is open during the sleep or the
\* next attempt; once the stop signal is raised the heartbeat goroutine of
\* that connection ends; and the end of a heartbeat goroutine after a failed
\* PING leaves the read loop, the socket, the stop signal and main's
\* position as they are.
C15_OneWayCancellation ==
    /\ [](\A s \in Sessions :
            /\ stopN[s] = (IF s \in ReadFailed THEN 1 ELSE 0)
            /\ (s \in ReadFailed /\ ~(s = sess /\ cpc = "cclose")) => csock[s] = "closed"
            /\ hb[s] = "stopped" => stopN[s] = 1)
    /\ [](cpc \in {"returned", "sleep", "resolve", "dial"} =>
            \A s \in Sessions : csock[s] # "open")
    /\ [][\A s \in Sessions :
            (hb[s] = "wait" /\ hb'[s] = "failed") =>
                (cpc' = cpc /\ csock' = csock /\ stopN' = stopN /\ got' = got /\ shown' = shown)
         ]_cliVars
    /\ \A s \in Sessions : (stopN[s] = 1) ~> (hb[s] \in {"failed", "stopped"})

\* a heartbeat goroutine ended on the stop signal of a read loop that failed,
\* its socket closed, and the client sleeps
C15_Witness ==
    \E s \in Sessions :
        hb[s] = "stopped" /\ stopN[s] = 1 /\ csock[s] = "closed" /\ cpc = "sleep"

\* the lines of a sequence that are not the heartbeat answer "PONG\n", each
\* as it is printed, in order
RECURSIVE Delivered(_)
Delivered(ms) ==
    IF ms = <<>> THEN <<>>
    ELSE IF Head(ms) = <<"P", "O", "N", "G", "\n">> THEN Delivered(Tail(ms))
    ELSE <<ServerTag \o Head(ms)>> \o Delivered(Tail(ms))

\* C16: what the client's read loop has printed is, in the order received,
\* every line it has read that is not "PONG\n", each once and whole after
\* "Server: "; no "PONG\n" is printed and no other line is left out.
C16_PongFiltered ==
    /\ shown = Delivered(got)
    /\ \A i \in 1..Len(shown) : shown[i] # ServerTag \o PONG \o NL
    /\ Len(shown) = Cardinality({i \in 1..Len(got) : got[i] # PONG \o NL})

\* a PONG came between two lines of data, one of them an echoed "PONG"
C16_Witness ==
    /\ got = <<EchoTag \o <<"a">> \o NL, PONG \o NL, EchoTag \o PONG \o NL>>
    /\ Len(shown) = 2

\* all that the server holds for one connection
ConnState(c) ==
    <<sock[c], closer[c], peer[c], inbuf[c], hpc[c], wpc[c], ctxErr[c], rdl[c], bufd[c],
      line[c], werr[c], received[c], wrote[c], wire[c], cause[c], tmo[c], released[c],
      ttlForced[c]>>
\* a step in which connection c fails: its read fails, one of its writes
\* fails, or its TTL timer fires or its watchdog forces the deadline
Fails(c) ==
    \/ hpc[c] = "read" /\ hpc'[c] = "close"
    \/ ~werr[c] /\ werr'[c]
    \/ wpc[c] = "wait" /\ wpc'[c] = "force"
    \/ wpc[c] = "force" /\ wpc'[c] = "done"
\* a step of the teardown of connection c: Close, <-sem, Add(-1)
TearsDown(c) == hpc[c] \in {"close", "release", "dec"} /\ hpc'[c] # hpc[c]

C18_OnlyIdleTimeoutCounted ==
    \A c \in Conns :
        cause[c] # "none" => tmo[c] = (IF cause[c] = "IdleTimeout" THEN 1 ELSE 0)

\* C19: the handler leaves its loop in one way only, from ReadString with
\* an error on record; a handler that is closing, or has closed, its socket
\* has such a read failure behind it, and the socket is closed by the
\* handler's own deferred Close after it.  A step of the watchdog (the timer
\* firing, the forced deadline) changes neither the handler's position nor
\* the socket, and the step after a reply, whatever the write did, goes back
\* to the top of the loop.
C19_EndsByReadFailure ==
    /\ [](\A c \in Conns :
            /\ hpc[c] \in {"close", "release", "dec"} => cause[c] # "none"
            /\ hpc[c] \in Active => (cause[c] = "none" /\ sock[c] = "open"))
    /\ [][\A c \in Conns :
            /\ (hpc[c] \in Active /\ hpc'[c] \notin Active) =>
                   (hpc[c] = "read" /\ hpc'[c] = "close" /\ cause'[c] # "none")
            /\ (sock[c] = "open" /\ sock'[c] # "open") =>
                   (hpc[c] = "close" /\ cause[c] # "none" /\ closer'[c] = <<"handler">>)
            /\ (wpc'[c] = "force" \/ wpc[c] = "force") =>
                   (wpc'[c] = wpc[c] \/ (hpc'[c] = hpc[c] /\ sock'[c] = sock[c]))
            /\ (hpc[c] = "reply" /\ hpc'[c] # hpc[c]) => hpc'[c] = "setdl"
         ]_vars

\* a handler was stopped by the deadline the watchdog forced: its read
\* failed, and it has closed its socket itself
C19_Witness ==
    \E c \in Conns :
        /\ hpc[c] = "release"
        /\ cause[c] = "TTLExpired"
        /\ wpc[c] = "done"
        /\ sock[c] = "closed"

\* the handler goroutines started and not yet ended
Outstanding == {c \in Conns : hpc[c] \in Active \cup {"close", "release", "dec"}}

\* C20: tcp_current_connections is never negative and never above the
\* capacity of sem, and it is 0 when no handler goroutine is outstanding and
\* none is being started.
C20_CounterWithinCapacity ==
    /\ currentConns >= 0
    /\ currentConns <= maxConnections
    /\ (Outstanding = {} /\ accPc # "count") => currentConns = 0

====
